---------------------------- MODULE Spec2Model ----------------------------
(***************************************************************************)
(* A model of SeoAnalyzer (src/src/seo-analyzer.ts): the scoring and       *)
(* message-classification engine that turns an HtmlAnalyzer's facts and a  *)
(* ContentJson descriptor into three message lists and two scores.         *)
(*                                                                         *)
(* Strings are sequences of one-character strings.  JavaScript numbers are *)
(* exact rationals extended with NaN, +Infinity and -Infinity, so that a   *)
(* division by zero is something the checks can see.                       *)
(***************************************************************************)
EXTENDS Integers, Sequences, FiniteSets, TLC

VARIABLES
    htmlAnalyzer,   \* the HtmlAnalyzer collaborator shared by every SeoAnalyzer
    heap,           \* the Heading[] arrays in memory: heap[r] is the array at reference r
    content,        \* the ContentJson descriptor the caller analyses
    objs,           \* the SeoAnalyzer instances constructed so far, in order
    ret             \* the last method call made on an instance, and what it returned

vars == <<htmlAnalyzer, heap, content, objs, ret>>

(***************************************************************************)
(* Bounds of the model.                                                    *)
(***************************************************************************)
MaxObjs == 2

(***************************************************************************)
(* JavaScript numbers.                                                     *)
(***************************************************************************)
Abs(i) == IF i < 0 THEN -i ELSE i

Sign(i) == IF i < 0 THEN -1 ELSE IF i > 0 THEN 1 ELSE 0

RECURSIVE Gcd(_, _)
Gcd(a, b) == IF b = 0 THEN a ELSE Gcd(b, a % b)

NaN == [k |-> "nan", n |-> 0, d |-> 1]

PosInf == [k |-> "inf", n |-> 1, d |-> 1]

NegInf == [k |-> "inf", n |-> -1, d |-> 1]

\* the finite number n/d (d > 0), in lowest terms
Fin(n, d) ==
    LET g == Gcd(Abs(n), d)
    IN  [k |-> "fin", n |-> n \div g, d |-> d \div g]

Num(i) == Fin(i, 1)

IsNaN(x) == x.k = "nan"

IsFinite(x) == x.k = "fin"

\* a / b
NumDiv(a, b) ==
    IF IsNaN(a) \/ IsNaN(b) THEN NaN
    ELSE IF IsFinite(a) /\ IsFinite(b) THEN
        IF b.n = 0
        THEN IF a.n = 0 THEN NaN ELSE IF a.n > 0 THEN PosInf ELSE NegInf
        ELSE Fin(a.n * b.d * Sign(b.n), a.d * Abs(b.n))
    ELSE IF IsFinite(b) THEN (IF a.n * Sign(b.n) >= 0 THEN PosInf ELSE NegInf)
    ELSE IF IsFinite(a) THEN Num(0)
    ELSE NaN

\* a * b
NumMul(a, b) ==
    IF IsNaN(a) \/ IsNaN(b) THEN NaN
    ELSE IF IsFinite(a) /\ IsFinite(b) THEN Fin(a.n * b.n, a.d * b.d)
    ELSE IF Sign(a.n) * Sign(b.n) = 0 THEN NaN
    ELSE IF Sign(a.n) * Sign(b.n) > 0 THEN PosInf ELSE NegInf

\* a + b
NumAdd(a, b) ==
    IF IsNaN(a) \/ IsNaN(b) THEN NaN
    ELSE IF IsFinite(a) /\ IsFinite(b) THEN Fin(a.n * b.d + b.n * a.d, a.d * b.d)
    ELSE IF IsFinite(a) THEN b
    ELSE IF IsFinite(b) THEN a
    ELSE IF a.n = b.n THEN a ELSE NaN

\* a < b: false as soon as one side is NaN
NumLt(a, b) ==
    /\ ~IsNaN(a)
    /\ ~IsNaN(b)
    /\ IF IsFinite(a) /\ IsFinite(b) THEN a.n * b.d < b.n * a.d
       ELSE IF IsFinite(a) THEN b.n > 0
       ELSE IF IsFinite(b) THEN a.n < 0
       ELSE a.n < b.n

\* a > b
NumGt(a, b) == NumLt(b, a)

\* Math.min(a, b)
MathMin(a, b) ==
    IF IsNaN(a) \/ IsNaN(b) THEN NaN
    ELSE IF NumLt(b, a) THEN b ELSE a

\* the truth value of a number in a condition: 0 and NaN are false
Truthy(x) == ~IsNaN(x) /\ ~(IsFinite(x) /\ x.n = 0)

\* x.toFixed(2): the number of hundredths nearest to x, halves away from zero
ToFixed2(x) ==
    IF IsFinite(x)
    THEN [k |-> "fin", h |-> Sign(x.n) * ((2 * 100 * Abs(x.n) + x.d) \div (2 * x.d))]
    ELSE [k |-> x.k, h |-> x.n]

(***************************************************************************)
(* JavaScript strings.                                                     *)
(***************************************************************************)
\* the value null, where a string may be null
Null == <<"<null>">>

\* String(v) as String.prototype.split applies it to its separator
ToStr(v) == IF v = Null THEN <<"n", "u", "l", "l">> ELSE v

\* a ?? b
Coalesce(a, b) == IF a = Null THEN b ELSE a

\* the string of n copies of the character c
Rep(c, n) == [i \in 1..n |-> c]

\* whether sep occurs in s at position q (1-based)
MatchAt(s, sep, q) ==
    /\ q + Len(sep) - 1 <= Len(s)
    /\ \A j \in 1..Len(sep) : s[q + j - 1] = sep[j]

\* the first position from q on where sep occurs in s, 0 when there is none
IndexOfFrom(s, sep, q) ==
    LET last == Len(s) - Len(sep) + 1
    IN  IF \E i \in q..last : MatchAt(s, sep, i)
        THEN CHOOSE i \in q..last :
                 MatchAt(s, sep, i) /\ \A j \in q..(i - 1) : ~MatchAt(s, sep, j)
        ELSE 0

\* s.split(sep) for a non-empty sep: the pieces of s from position p on
RECURSIVE SplitFrom(_, _, _)
SplitFrom(s, sep, p) ==
    LET q == IndexOfFrom(s, sep, p)
    IN  IF q = 0 THEN <<SubSeq(s, p, Len(s))>>
        ELSE <<SubSeq(s, p, q - 1)>> \o SplitFrom(s, sep, q + Len(sep))

\* s.split(sep): an empty separator splits into the characters
Split(s, sep) ==
    IF sep = <<>> THEN [i \in 1..Len(s) |-> <<s[i]>>]
    ELSE SplitFrom(s, sep, 1)


(***************************************************************************)
(* The HtmlAnalyzer collaborator (./html-analyzer, consumed through its    *)
(* interface): the body text, the heading tags, the link sets and the word *)
(* count.                                                                  *)
(***************************************************************************)
SPACE == <<" ">>

\* the positions of s where a word starts: a character that is not a space,
\* at the start of s or after a space
WordStarts(s) == {i \in 1..Len(s) : s[i] # " " /\ (i = 1 \/ s[i - 1] = " ")}

\* htmlAnalyzer.getWordCount(text): the number of whitespace-delimited words of
\* the text, of the body text when none is given
getWordCount(text) == Cardinality(WordStarts(Coalesce(text, htmlAnalyzer.bodyText)))

\* htmlAnalyzer.getAllHeadingTags() on the heap h: the reference of the array
\* it hands out, and the heap after the call.
\* An analyzer that keeps its heading array hands out that array (reference 1);
\* one that collects the headings on every call hands out a new array, a copy.
getAllHeadingTags(h) ==
    IF htmlAnalyzer.keepsHeadings
    THEN [ref |-> 1, heap |-> h]
    ELSE [ref |-> Len(h) + 1, heap |-> Append(h, h[1])]

\* htmlAnalyzer.getInternalLinks()
getInternalLinks == htmlAnalyzer.internalLinks

\* htmlAnalyzer.getOutboundLinks()
getOutboundLinks == htmlAnalyzer.outboundLinks

(***************************************************************************)
(* SeoAnalyzer: the thresholds.                                            *)
(***************************************************************************)
MINIMUM_KEYWORD_DENSITY == Fin(46, 100)

MAXIMUM_KEYWORD_DENSITY == Fin(11, 10)

MAXIMUM_SUB_KEYWORD_DENSITY == Fin(9, 10)

MINIMUM_SUB_KEYWORD_DENSITY == Fin(12, 100)

EXTREME_LOW_SUB_KEYWORD_DENSITY == Fin(9, 100)

MAXIMUM_META_DESCRIPTION_LENGTH == 160

MAXIMUM_META_DESCRIPTION_DENSITY == 5

MINIMUM_META_DESCRIPTION_DENSITY == 2

MAXIMUM_TITLE_LENGTH == 70

MINIMUM_TITLE_LENGTH == 40

MAXIMUM_SUB_KEYWORD_IN_META_DESCRIPTION_DENSITY == 5

MINIMUM_SUB_KEYWORD_IN_META_DESCRIPTION_DENSITY == 2

MAX_SCORE == 100

(***************************************************************************)
(* SeoAnalyzer: the computations.  c is this.content.                      *)
(***************************************************************************)
\* countOccurrencesInString(keyword, stringContent)
countOccurrencesInString(c, keyword, stringContent) ==
    LET kw == Coalesce(keyword, c.keyword)
        sc == Coalesce(stringContent, htmlAnalyzer.bodyText)
    IN  Len(Split(sc, ToStr(kw))) - 1

\* calculateDensity(keyword, bodyText)
calculateDensity(c, keyword, bodyText) ==
    LET bt == Coalesce(bodyText, htmlAnalyzer.bodyText)
    IN  NumMul(NumDiv(Num(countOccurrencesInString(c, keyword, bt)),
                      Num(getWordCount(bt))),
               Num(100))

\* getPosition(text, keyword) as a zero-based index
getPositionZeroBased(text, keyword) ==
    IF text = Null \/ text = <<>> \/ keyword = Null \/ keyword = <<>> THEN -1
    ELSE Len(Split(Split(text, keyword)[1], SPACE)) - 1

\* getPosition(text, keyword)
getPosition(text, keyword) ==
    IF text = Null \/ text = <<>> \/ keyword = Null \/ keyword = <<>> THEN -1
    ELSE Len(Split(Split(text, keyword)[1], SPACE))

\* getKeywordInTitle(keyword)
getKeywordInTitle(c, keyword) ==
    LET kw == Coalesce(keyword, c.keyword)
    IN  [keyword  |-> kw,
         density  |-> calculateDensity(c, kw, c.title),
         position |-> getPosition(c.title, kw)]

\* getSubKeywordsInTitle()
getSubKeywordsInTitle(c) ==
    [i \in 1..Len(c.subKeywords) |-> getKeywordInTitle(c, c.subKeywords[i])]

\* getKeywordInMetaDescription(keyword)
getKeywordInMetaDescription(c, keyword) ==
    LET kw == IF keyword = Null THEN c.keyword ELSE keyword
    IN  [keyword  |-> kw,
         density  |-> calculateDensity(c, kw, c.metaDescription),
         position |-> getPosition(c.metaDescription, kw)]

\* getSubKeywordsInMetaDescription()
getSubKeywordsInMetaDescription(c) ==
    [i \in 1..Len(c.subKeywords) |-> getKeywordInMetaDescription(c, c.subKeywords[i])]

\* getSubKeywordsDensity()
getSubKeywordsDensity(c) ==
    [i \in 1..Len(c.subKeywords) |->
        [keyword |-> c.subKeywords[i],
         density |-> calculateDensity(c, c.subKeywords[i], Null)]]

\* totalUniqueInternalLinksCount()
totalUniqueInternalLinksCount == Len(getInternalLinks.unique)

\* totalUniqueExternalLinksCount()
totalUniqueExternalLinksCount == Len(getOutboundLinks.unique)

\* getTitleWordCount()
getTitleWordCount(c) == getWordCount(c.title)

\* getSeoScore() with the minor warnings counted among the warnings
getSeoScoreCountingMinorWarnings(this) ==
    LET bad == Len(this.messages.warnings) + Len(this.messages.minorWarnings)
        goodPoints == this.messages.goodPoints
    IN  MathMin(NumMul(NumDiv(Num(Len(goodPoints)), Num(bad + Len(goodPoints))),
                       Num(100)),
                Num(MAX_SCORE))

\* getSeoScore()
getSeoScore(this) ==
    LET warnings == this.messages.warnings
        goodPoints == this.messages.goodPoints
        messagesScore == NumMul(NumDiv(Num(Len(goodPoints)),
                                       Num(Len(warnings) + Len(goodPoints))),
                                Num(100))
    IN  MathMin(messagesScore, Num(MAX_SCORE))

\* the reduce of getKeywordSeoScore: total + density * 10 over the first n entries
RECURSIVE SumDensityScores(_, _)
SumDensityScores(densities, n) ==
    IF n = 0 THEN Num(0)
    ELSE NumAdd(SumDensityScores(densities, n - 1),
                NumMul(densities[n].density, Num(10)))

\* getKeywordSeoScore()
getKeywordSeoScore(this) ==
    LET keywordInTitle == getKeywordInTitle(this.content, Null)
        subKeywordsInTitle == getSubKeywordsInTitle(this.content)
        subKeywordsDensity == getSubKeywordsDensity(this.content)
        keywordInTitleScore == NumMul(keywordInTitle.density, Num(10))
        subKeywordsInTitleScore == Num(Len(subKeywordsInTitle) * 10)
        subKeywordsDensityScore ==
            SumDensityScores(subKeywordsDensity, Len(subKeywordsDensity))
        keywordDensityScore == NumMul(this.keywordDensity, Num(10))
        totalScore ==
            NumAdd(NumAdd(NumAdd(keywordInTitleScore, subKeywordsInTitleScore),
                          subKeywordsDensityScore),
                   keywordDensityScore)
    IN  MathMin(totalScore, Num(MAX_SCORE))

(***************************************************************************)
(* SeoAnalyzer: the message rules.  A message is the tuple of its template *)
(* and the values the template quotes; each rule yields, in order, the     *)
(* messages it pushes and the list each goes to.                           *)
(***************************************************************************)
Warning(msg) == [list |-> "warnings", msg |-> msg]

MinorWarning(msg) == [list |-> "minorWarnings", msg |-> msg]

GoodPoint(msg) == [list |-> "goodPoints", msg |-> msg]

\* the message lists after the pushes, in order
RECURSIVE PushAll(_, _)
PushAll(messages, pushes) ==
    IF pushes = <<>> THEN messages
    ELSE PushAll([messages EXCEPT ![Head(pushes).list] = Append(@, Head(pushes).msg)],
                 Tail(pushes))

\* the concatenation of the per-element pushes f[1], ..., f[n]
RECURSIVE Flatten(_, _)
Flatten(f, n) == IF n = 0 THEN <<>> ELSE Flatten(f, n - 1) \o f[n]

\* assignMessagesForKeyword()
assignMessagesForKeyword(this) ==
    LET kd == this.keywordDensity
        keyword == this.content.keyword
    IN  IF keyword # Null /\ keyword # <<>>
        THEN <<GoodPoint(<<"keyword present", keyword>>)>>
             \o (IF NumGt(kd, Num(5)) THEN <<Warning(<<"keyword stuffing">>)>> ELSE <<>>)
             \o (IF NumLt(kd, MINIMUM_KEYWORD_DENSITY)
                 THEN <<Warning(<<"keyword density too low", ToFixed2(kd)>>)>>
                 ELSE IF NumGt(kd, MAXIMUM_KEYWORD_DENSITY)
                 THEN <<Warning(<<"keyword density too high", ToFixed2(kd)>>)>>
                 ELSE <<GoodPoint(<<"keyword density", ToFixed2(kd)>>)>>)
        ELSE <<Warning(<<"missing primary keyword">>)>>

\* the body of the forEach of assignMessagesForSubKeywords
subKeywordDensityMessage(skd) ==
    IF NumGt(skd.density, MAXIMUM_SUB_KEYWORD_DENSITY)
    THEN Warning(<<"sub keyword density too high", skd.keyword, ToFixed2(skd.density)>>)
    ELSE IF NumLt(skd.density, MINIMUM_SUB_KEYWORD_DENSITY)
    THEN MinorWarning(<<"sub keyword density low", skd.keyword,
                        IF NumLt(skd.density, EXTREME_LOW_SUB_KEYWORD_DENSITY)
                        THEN "too low" ELSE "low",
                        ToFixed2(skd.density)>>)
    ELSE GoodPoint(<<"sub keyword density", skd.keyword, ToFixed2(skd.density)>>)

\* assignMessagesForSubKeywords()
assignMessagesForSubKeywords(this) ==
    LET subKeywordsDensity == getSubKeywordsDensity(this.content)
    IN  IF Len(this.content.subKeywords) > 0
        THEN <<GoodPoint(<<"sub keywords present", this.content.subKeywords>>)>>
             \o [i \in 1..Len(subKeywordsDensity) |->
                    subKeywordDensityMessage(subKeywordsDensity[i])]
        ELSE <<MinorWarning(<<"missing sub keywords">>)>>

\* the title-length rule with the two limits themselves outside the good range
titleLengthMessageExclusive(title) ==
    IF Len(title) >= MAXIMUM_TITLE_LENGTH THEN Warning(<<"title too long">>)
    ELSE IF Len(title) <= MINIMUM_TITLE_LENGTH THEN Warning(<<"title too short">>)
    ELSE GoodPoint(<<"title length", Len(title)>>)

\* the title-length rule of assignMessagesForTitle
titleLengthMessage(title) ==
    IF Len(title) > MAXIMUM_TITLE_LENGTH THEN Warning(<<"title too long">>)
    ELSE IF Len(title) < MINIMUM_TITLE_LENGTH THEN Warning(<<"title too short">>)
    ELSE GoodPoint(<<"title length", Len(title)>>)

\* assignMessagesForTitle()
assignMessagesForTitle(this) ==
    LET title == this.content.title
        keywordInTitle == getKeywordInTitle(this.content, Null)
    IN  IF title # <<>>
        THEN <<titleLengthMessage(title)>>
             \o (IF Truthy(keywordInTitle.density)
                 THEN <<GoodPoint(<<"keyword density in title",
                                    ToFixed2(keywordInTitle.density)>>)>>
                 ELSE <<Warning(<<"no primary keyword in title">>)>>)
             \o (IF Len(getSubKeywordsInTitle(this.content)) > 0
                 THEN <<GoodPoint(<<"sub keywords in title",
                                    Len(getSubKeywordsInTitle(this.content))>>)>>
                 ELSE <<MinorWarning(<<"no sub keyword in title">>)>>)
        ELSE <<Warning(<<"missing title">>)>>

\* assignMessagesForLinks(): count < wordCount / n is count * n < wordCount
assignMessagesForLinks(this) ==
    LET wordCount == getWordCount(Null)
    IN  (IF totalUniqueInternalLinksCount * 300 < wordCount
         THEN <<Warning(<<"not enough internal links", totalUniqueInternalLinksCount>>)>>
         ELSE <<GoodPoint(<<"internal links", totalUniqueInternalLinksCount>>)>>)
        \o (IF totalUniqueExternalLinksCount * 400 < wordCount
            THEN <<Warning(<<"not enough outbound links", totalUniqueExternalLinksCount>>)>>
            ELSE <<>>)
        \o (IF Len(getInternalLinks.duplicate) > 1
            THEN <<MinorWarning(<<"duplicate internal links",
                                  Len(getInternalLinks.duplicate)>>)>>
            ELSE <<GoodPoint(<<"no duplicate internal links">>)>>)
        \o (IF Len(getOutboundLinks.duplicate) > 1
            THEN <<MinorWarning(<<"duplicate outbound links",
                                  Len(getOutboundLinks.duplicate)>>)>>
            ELSE <<GoodPoint(<<"no duplicate outbound links">>)>>)

\* s.substring(0, n)
Substring0(s, n) == SubSeq(s, 1, IF Len(s) < n THEN Len(s) ELSE n)

\* the body of the forEach of assignMessagesForMetaDescription
subKeywordInMetaDescriptionMessage(subKeyword) ==
    IF NumGt(subKeyword.density, Num(MAXIMUM_SUB_KEYWORD_IN_META_DESCRIPTION_DENSITY))
    THEN Warning(<<"sub keyword density in meta description too high",
                   subKeyword.keyword, ToFixed2(subKeyword.density)>>)
    ELSE IF NumLt(subKeyword.density, Num(MINIMUM_SUB_KEYWORD_IN_META_DESCRIPTION_DENSITY))
    THEN MinorWarning(<<"sub keyword density in meta description low",
                        subKeyword.keyword,
                        IF NumLt(subKeyword.density, Fin(2, 10)) THEN "too low" ELSE "low",
                        ToFixed2(subKeyword.density)>>)
    ELSE GoodPoint(<<"sub keyword density in meta description",
                     subKeyword.keyword, ToFixed2(subKeyword.density)>>)

\* assignMessagesForMetaDescription()
assignMessagesForMetaDescription(this) ==
    LET metaDescription == this.content.metaDescription
        keywordInMetaDescription == getKeywordInMetaDescription(this.content, Null)
        density == keywordInMetaDescription.density
        subKeywordsInMetaDescription == getSubKeywordsInMetaDescription(this.content)
    IN  IF metaDescription # <<>>
        THEN (IF Len(metaDescription) > MAXIMUM_META_DESCRIPTION_LENGTH
              THEN <<Warning(<<"meta description too long", Len(metaDescription)>>)>>
              ELSE IF Len(metaDescription) < 100
              THEN <<Warning(<<"meta description too short", Len(metaDescription)>>)>>
              ELSE <<GoodPoint(<<"meta description length", Len(metaDescription)>>)>>
                   \o (IF NumGt(density, Num(MAXIMUM_META_DESCRIPTION_DENSITY))
                       THEN <<Warning(<<"keyword density in meta description too high",
                                        ToFixed2(density)>>)>>
                       ELSE IF NumLt(density, Num(MINIMUM_META_DESCRIPTION_DENSITY))
                       THEN <<Warning(<<"keyword density in meta description too low",
                                        ToFixed2(density)>>)>>
                       ELSE <<GoodPoint(<<"keyword density in meta description",
                                          ToFixed2(density)>>)>>))
             \o (IF keywordInMetaDescription.position > 1
                 THEN <<MinorWarning(<<"meta description does not start with keyword",
                                       Substring0(metaDescription, 20)>>)>>
                 ELSE <<GoodPoint(<<"meta description starts with keyword",
                                    Substring0(metaDescription, 20)>>)>>)
             \o [i \in 1..Len(subKeywordsInMetaDescription) |->
                    subKeywordInMetaDescriptionMessage(subKeywordsInMetaDescription[i])]
        ELSE <<Warning(<<"missing meta description">>)>>

\* tag.toLowerCase() over the tags of the model
ToLowerCase(tag) ==
    CASE tag = "H1" -> "h1"
      [] tag = "H2" -> "h2"
      [] tag = "H3" -> "h3"
      [] OTHER -> tag

\* filterHeading(headingTag) comparing the tags as they are written
filterHeadingCaseSensitive(headings, headingTag) ==
    SelectSeq(headings, LAMBDA heading : heading.tag = headingTag)

\* filterHeading(headingTag) over the array this.headings refers to
filterHeading(headings, headingTag) ==
    SelectSeq(headings, LAMBDA heading : ToLowerCase(heading.tag) = ToLowerCase(headingTag))

\* assignMessagesForHeadings()
assignMessagesForHeadings(headings) ==
    LET headingsOne == filterHeading(headings, "h1")
        headingsTwo == filterHeading(headings, "h2")
        headingsThree == filterHeading(headings, "h3")
    IN  IF Len(headings) = 0
        THEN <<Warning(<<"missing headings">>)>>
        ELSE <<GoodPoint(<<"headings", Len(headings)>>)>>
             \o (IF Len(headingsOne) = 0 THEN <<Warning(<<"missing h1">>)>>
                 ELSE IF Len(headingsOne) > 1 THEN <<Warning(<<"more than one h1">>)>>
                 ELSE <<GoodPoint(<<"has h1">>)>>)
             \o (IF Len(headingsTwo) = 0 THEN <<Warning(<<"missing h2">>)>>
                 ELSE <<GoodPoint(<<"has h2">>)>>)
             \o (IF Len(headingsThree) = 0 THEN <<MinorWarning(<<"missing h3">>)>>
                 ELSE <<GoodPoint(<<"has h3">>)>>)

\* assignMessagesForKeywordInHeadings()
assignMessagesForKeywordInHeadings(this, headings) ==
    [i \in 1..Len(headings) |->
        IF countOccurrencesInString(this.content, this.content.keyword, headings[i].text) > 0
        THEN GoodPoint(<<"keyword in heading", this.content.keyword,
                         headings[i].tag, headings[i].text>>)
        ELSE MinorWarning(<<"keyword not in heading", this.content.keyword,
                            headings[i].tag, headings[i].text>>)]

\* assignMessagesForSubKeywordsInHeadings()
assignMessagesForSubKeywordsInHeadings(this, headings) ==
    LET subKeywords == this.content.subKeywords
        perHeading(heading) ==
            [j \in 1..Len(subKeywords) |->
                IF countOccurrencesInString(this.content, subKeywords[j], heading.text) > 0
                THEN GoodPoint(<<"sub keyword in heading", subKeywords[j],
                                 heading.tag, heading.text>>)
                ELSE MinorWarning(<<"sub keyword not in heading", subKeywords[j],
                                    heading.tag, heading.text>>)]
    IN  Flatten([i \in 1..Len(headings) |-> perHeading(headings[i])], Len(headings))

\* assignMessages(): the eight rules, each pushing onto this.messages
assignMessages(this, headings) ==
    PushAll(this.messages,
            assignMessagesForKeyword(this)
            \o assignMessagesForSubKeywords(this)
            \o assignMessagesForTitle(this)
            \o assignMessagesForLinks(this)
            \o assignMessagesForMetaDescription(this)
            \o assignMessagesForKeywordInHeadings(this, headings)
            \o assignMessagesForSubKeywordsInHeadings(this, headings)
            \o assignMessagesForHeadings(headings))

(***************************************************************************)
(* The inputs: strings, content descriptors and analyzer outputs.          *)
(***************************************************************************)
seo == <<"s", "e", "o">>

great == <<"g", "r", "e", "a", "t">>

seoIsGreat == seo \o SPACE \o <<"i", "s">> \o SPACE \o great

greatSeoContent ==
    great \o SPACE \o seo \o SPACE \o <<"c", "o", "n", "t", "e", "n", "t">>

\* n words: "seo" followed by n - 1 words "a"
SeoThenWords(n) == seo \o [i \in 1..(2 * (n - 1)) |-> IF i % 2 = 1 THEN " " ELSE "a"]

Titles ==
    { <<>>, greatSeoContent,
      Rep("a", MINIMUM_TITLE_LENGTH - 1), Rep("a", MINIMUM_TITLE_LENGTH),
      Rep("a", MAXIMUM_TITLE_LENGTH), Rep("a", MAXIMUM_TITLE_LENGTH + 1) }

MetaDescriptions ==
    { <<>>, greatSeoContent,
      seo \o SPACE \o Rep("b", 116),
      Rep("b", MAXIMUM_META_DESCRIPTION_LENGTH + 1) }

Keywords == { Null, <<>>, seo }

SubKeywordLists == { <<>>, <<great, <<"x", "y">> >> }

Contents ==
    [title : Titles, metaDescription : MetaDescriptions,
     keyword : Keywords, subKeywords : SubKeywordLists]

BodyTexts == { <<>>, seoIsGreat, SeoThenWords(100) }

HeadingLists ==
    { <<>>,
      <<[tag |-> "h2", text |-> greatSeoContent]>>,
      <<[tag |-> "h1", text |-> seoIsGreat], [tag |-> "H2", text |-> great],
        [tag |-> "h3", text |-> <<"x", "y">>]>> }

\* the links of a page without links, and of one with two links of each kind,
\* each met twice more
LinkOutputs ==
    { [internalLinks |-> [unique |-> <<>>, duplicate |-> <<>>],
       outboundLinks |-> [unique |-> <<>>, duplicate |-> <<>>]],
      [internalLinks |-> [unique |-> <<"/a", "/b">>, duplicate |-> <<"/a", "/b">>],
       outboundLinks |-> [unique |-> <<"//x", "//y">>, duplicate |-> <<"//x", "//y">>]] }

\* the analyzers with these outputs; an analyzer's heading array is heap[1]
Analyzer(bodyTexts) ==
    { [bodyText |-> b, internalLinks |-> l.internalLinks,
       outboundLinks |-> l.outboundLinks, keepsHeadings |-> k] :
        b \in bodyTexts, l \in LinkOutputs, k \in BOOLEAN }

NoCall == [op |-> "none", obj |-> 0, args |-> <<>>, value |-> <<>>]

(***************************************************************************)
(* The state machine.                                                      *)
(***************************************************************************)
Init ==
    /\ htmlAnalyzer \in Analyzer(BodyTexts)
    /\ \E headings \in HeadingLists : heap = <<headings>>
    /\ content \in Contents
    /\ objs = <<>>
    /\ ret = NoCall

\* new SeoAnalyzer(content, htmlAnalyzer, strictMode) on the heap h: the
\* instance, and the heap it leaves
Constructed(h, strictMode) ==
    LET keywordDensity == calculateDensity(content, content.keyword, Null)
        got == getAllHeadingTags(h)
        pushed == IF ~strictMode
                  THEN [got.heap EXCEPT ![got.ref] =
                            Append(@, [tag |-> "H1", text |-> content.title])]
                  ELSE got.heap
        this == [content        |-> content,
                 strictMode     |-> strictMode,
                 keywordDensity |-> keywordDensity,
                 headings       |-> got.ref,
                 messages       |-> [warnings |-> <<>>, minorWarnings |-> <<>>,
                                     goodPoints |-> <<>>],
                 \* history: the elements of the array as getAllHeadingTags()
                 \* returned it
                 returned       |-> got.heap[got.ref],
                 \* history: the elements of this.headings as assignMessages()
                 \* found them
                 analysed       |-> pushed[got.ref]]
    IN  [this |-> [this EXCEPT !.messages = assignMessages(this, pushed[got.ref])],
         heap |-> pushed]

Construct(strictMode) ==
    /\ Len(objs) < MaxObjs
    /\ \E new \in {Constructed(heap, strictMode)} :
           /\ objs' = Append(objs, new.this)
           /\ heap' = new.heap
    /\ UNCHANGED <<htmlAnalyzer, content, ret>>

Next == \E strictMode \in BOOLEAN : Construct(strictMode)

Spec == Init /\ [][Next]_vars

(***************************************************************************)
(* Method calls on the constructed instances.                              *)
(***************************************************************************)
Accessors ==
    { "getSubKeywordsDensity", "totalUniqueInternalLinksCount",
      "totalUniqueExternalLinksCount", "getKeywordInTitle", "getSubKeywordsInTitle",
      "getKeywordInMetaDescription", "getSubKeywordsInMetaDescription",
      "getTitleWordCount", "getSeoScore", "getKeywordSeoScore" }

\* what the accessor op returns on the instance this, called without arguments
Accessor(op, this) ==
    CASE op = "getSubKeywordsDensity" -> getSubKeywordsDensity(this.content)
      [] op = "totalUniqueInternalLinksCount" -> totalUniqueInternalLinksCount
      [] op = "totalUniqueExternalLinksCount" -> totalUniqueExternalLinksCount
      [] op = "getKeywordInTitle" -> getKeywordInTitle(this.content, Null)
      [] op = "getSubKeywordsInTitle" -> getSubKeywordsInTitle(this.content)
      [] op = "getKeywordInMetaDescription" ->
            getKeywordInMetaDescription(this.content, Null)
      [] op = "getSubKeywordsInMetaDescription" ->
            getSubKeywordsInMetaDescription(this.content)
      [] op = "getTitleWordCount" -> getTitleWordCount(this.content)
      [] op = "getSeoScore" -> getSeoScore(this)
      [] op = "getKeywordSeoScore" -> getKeywordSeoScore(this)

\* a call of an accessor that runs the message rules again
CallAccessorReassigning(i, op) ==
    /\ ret' = [op |-> op, obj |-> i, args |-> <<>>, value |-> Accessor(op, objs[i])]
    /\ objs' = [objs EXCEPT ![i].messages = assignMessages(objs[i], heap[objs[i].headings])]
    /\ UNCHANGED <<htmlAnalyzer, heap, content>>

\* a call of an accessor on the i-th instance
CallAccessor(i, op) ==
    /\ ret' = [op |-> op, obj |-> i, args |-> <<>>, value |-> Accessor(op, objs[i])]
    /\ UNCHANGED <<htmlAnalyzer, heap, content, objs>>

nullWord == <<"n", "u", "l", "l">>

\* the texts and keywords the methods are called with
ArgTexts == { <<>>, seoIsGreat, greatSeoContent, <<"a", "a", "a">> }

ArgKeywords == { Null, <<>>, seo, <<"a", "a">> }

\* objs[i].getPosition(text, keyword)
CallGetPosition(i, text, keyword) ==
    /\ ret' = [op |-> "getPosition", obj |-> i, args |-> <<text, keyword>>,
               value |-> getPosition(text, keyword)]
    /\ UNCHANGED <<htmlAnalyzer, heap, content, objs>>

\* objs[i].calculateDensity(keyword, bodyText)
CallCalculateDensity(i, keyword, bodyText) ==
    /\ ret' = [op |-> "calculateDensity", obj |-> i, args |-> <<keyword, bodyText>>,
               value |-> calculateDensity(objs[i].content, keyword, bodyText)]
    /\ UNCHANGED <<htmlAnalyzer, heap, content, objs>>

\* objs[i].countOccurrencesInString(keyword, stringContent)
CallCountOccurrencesInString(i, keyword, stringContent) ==
    /\ ret' = [op |-> "countOccurrencesInString", obj |-> i,
               args |-> <<keyword, stringContent>>,
               value |-> countOccurrencesInString(objs[i].content, keyword, stringContent)]
    /\ UNCHANGED <<htmlAnalyzer, heap, content, objs>>

\* the inputs of the runs that construct one instance and call its methods
CallContents ==
    [title : {<<>>, greatSeoContent}, metaDescription : {seoIsGreat},
     keyword : Keywords, subKeywords : {<<great, <<"x", "y">> >>}]

InitCalls ==
    /\ htmlAnalyzer \in Analyzer({<<>>, nullWord \o SPACE \o seo})
    /\ heap = << <<[tag |-> "h2", text |-> greatSeoContent]>> >>
    /\ content \in CallContents
    /\ objs = <<>>
    /\ ret = NoCall

NextCalls ==
    \/ \E strictMode \in BOOLEAN : objs = <<>> /\ Construct(strictMode)
    \/ \E i \in 1..Len(objs), op \in Accessors : CallAccessor(i, op)
    \/ \E i \in 1..Len(objs), text \in ArgTexts, keyword \in ArgKeywords :
           CallGetPosition(i, text, keyword)
    \/ \E i \in 1..Len(objs), keyword \in ArgKeywords, text \in ArgTexts \cup {Null} :
           CallCalculateDensity(i, keyword, text)
    \/ \E i \in 1..Len(objs), keyword \in ArgKeywords, text \in ArgTexts \cup {Null} :
           CallCountOccurrencesInString(i, keyword, text)

SpecCalls == InitCalls /\ [][NextCalls]_vars

(***************************************************************************)
(* The properties.                                                         *)
(***************************************************************************)
\* whether the list holds a message of this template
Has(list, template) == \E k \in 1..Len(list) : list[k][1] = template

\* the number of messages of this template in the list
Count(list, template) == Cardinality({k \in 1..Len(list) : list[k][1] = template})

\* a finite number within [0, 100]
InScoreRange(x) == IsFinite(x) /\ 0 <= x.n /\ x.n <= 100 * x.d

\* C1: on every constructed instance the constructor's pipeline has left at
\* least one warning or good point, and getSeoScore() is a finite number in
\* [0, 100] equal to goodPoints / (warnings + goodPoints) * 100, the minor
\* warnings not counted.
C1_SeoScoreInRange ==
    \A i \in 1..Len(objs) :
        LET w == Len(objs[i].messages.warnings)
            g == Len(objs[i].messages.goodPoints)
            score == getSeoScore(objs[i])
        IN  /\ w + g >= 1
            /\ InScoreRange(score)
            /\ score.n * (w + g) = 100 * g * score.d

\* C1 witness: an instance without keyword and sub-keywords, with minor
\* warnings, whose score lies strictly between 0 and 100.
C1_Witness ==
    \E i \in 1..Len(objs) :
        /\ objs[i].content.keyword = Null
        /\ objs[i].content.subKeywords = <<>>
        /\ Len(objs[i].messages.minorWarnings) > 0
        /\ NumLt(Num(0), getSeoScore(objs[i]))
        /\ NumLt(getSeoScore(objs[i]), Num(100))

\* C2: on every constructed instance getKeywordSeoScore() is a finite number
\* in [0, 100].
C2_KeywordSeoScoreInRange ==
    \A i \in 1..Len(objs) : InScoreRange(getKeywordSeoScore(objs[i]))

\* the text a call of calculateDensity or countOccurrencesInString works on
EffectiveText(text) == IF text = Null THEN htmlAnalyzer.bodyText ELSE text

\* the keyword a call of countOccurrencesInString looks for
EffectiveKeyword(keyword) == IF keyword = Null THEN content.keyword ELSE keyword

\* the number of matches of k in s met from position q on, reading left to
\* right and resuming after each match
RECURSIVE MatchesFrom(_, _, _)
MatchesFrom(s, k, q) ==
    IF q + Len(k) - 1 > Len(s) THEN 0
    ELSE IF SubSeq(s, q, q + Len(k) - 1) = k THEN 1 + MatchesFrom(s, k, q + Len(k))
    ELSE MatchesFrom(s, k, q + 1)

\* C3: calculateDensity(keyword, text) returns a finite number, also when the
\* analyzer counts no word in the text, and occurrences * 100 / wordCount when
\* it counts some.
C3_DensityIsDefined ==
    ret.op = "calculateDensity" =>
        LET text == EffectiveText(ret.args[2])
            wordCount == getWordCount(text)
            occurrences ==
                countOccurrencesInString(objs[ret.obj].content, ret.args[1], text)
        IN  /\ IsFinite(ret.value)
            /\ wordCount > 0 => ret.value.n * wordCount = occurrences * 100 * ret.value.d

\* C4: countOccurrencesInString returns 0 for an empty or null keyword, and the
\* number of non-overlapping matches of a non-empty keyword.
C4_OccurrencesOfKeyword ==
    ret.op = "countOccurrencesInString" =>
        LET keyword == EffectiveKeyword(ret.args[1])
            text == EffectiveText(ret.args[2])
        IN  IF keyword = Null \/ keyword = <<>>
            THEN ret.value = 0
            ELSE ret.value = MatchesFrom(text, keyword, 1)

\* the heading the constructor adds outside strict mode
SyntheticH1(this) == [tag |-> "H1", text |-> this.content.title]

\* C5: constructing an instance leaves the array getAllHeadingTags() returned
\* with the elements it was returned with, and two instances constructed
\* outside strict mode over the same analyzer find the same headings and hold
\* the same messages.
C5_AnalyzerHeadingsUntouched ==
    /\ \A i \in 1..Len(objs) : heap[objs[i].headings] = objs[i].returned
    /\ \A i, j \in 1..Len(objs) :
           (~objs[i].strictMode /\ ~objs[j].strictMode) =>
               /\ objs[i].analysed = objs[j].analysed
               /\ objs[i].messages = objs[j].messages

\* C6: in strict mode over an analyzer without headings no heading is added
\* and the missing-heading warning is given; outside strict mode the H1 with
\* the title is added to whatever the analyzer returned, and neither the
\* missing-heading nor the missing-h1 warning is given.
C6_SyntheticH1OnlyOutsideStrictMode ==
    \A i \in 1..Len(objs) :
        LET this == objs[i]
        IN  /\ (this.strictMode /\ this.returned = <<>>) =>
                   /\ this.analysed = <<>>
                   /\ Has(this.messages.warnings, "missing headings")
            /\ ~this.strictMode =>
                   /\ this.analysed = Append(this.returned, SyntheticH1(this))
                   /\ ~Has(this.messages.warnings, "missing headings")
                   /\ ~Has(this.messages.warnings, "missing h1")

\* C6 witness: over an analyzer without headings, an instance constructed in
\* strict mode and one constructed outside it.
C6_Witness ==
    /\ \E i \in 1..Len(objs) : objs[i].strictMode /\ objs[i].returned = <<>>
    /\ \E i \in 1..Len(objs) : ~objs[i].strictMode /\ objs[i].returned = <<>>

\* whether some sub-keyword occurs in the title
SomeSubKeywordInTitle(this) ==
    \E k \in 1..Len(this.content.subKeywords) :
        Truthy(getKeywordInTitle(this.content, this.content.subKeywords[k]).density)

\* C7: with a title, the sub-keywords-in-title good point is given only if some
\* sub-keyword occurs in the title, and the no-sub-keyword-in-title minor
\* warning is given if none does.
C7_SubKeywordsFoundInTitle ==
    \A i \in 1..Len(objs) :
        objs[i].content.title # <<>> =>
            /\ Has(objs[i].messages.goodPoints, "sub keywords in title") =>
                   SomeSubKeywordInTitle(objs[i])
            /\ ~SomeSubKeywordInTitle(objs[i]) =>
                   Has(objs[i].messages.minorWarnings, "no sub keyword in title")

\* the number of messages of this template over the three lists
CountAll(messages, template) ==
    Count(messages.warnings, template) + Count(messages.minorWarnings, template)
        + Count(messages.goodPoints, template)

\* C8: with a title, exactly one title-length message is given: the too-long
\* warning above 70 characters, the too-short warning below 40, and the good
\* point quoting the length from 40 to 70, both included.
C8_TitleLengthBoundaries ==
    \A i \in 1..Len(objs) :
        LET length == Len(objs[i].content.title)
            messages == objs[i].messages
        IN  length > 0 =>
                /\ CountAll(messages, "title too long")
                       + CountAll(messages, "title too short")
                       + CountAll(messages, "title length") = 1
                /\ length > 70 => Has(messages.warnings, "title too long")
                /\ length < 40 => Has(messages.warnings, "title too short")
                /\ (40 <= length /\ length <= 70) =>
                       \E k \in 1..Len(messages.goodPoints) :
                           /\ messages.goodPoints[k][1] = "title length"
                           /\ messages.goodPoints[k][2] = length

\* C8 witness: a title of exactly 70 characters got the good point.
C8_Witness ==
    \E i \in 1..Len(objs) :
        /\ Len(objs[i].content.title) = 70
        /\ Has(objs[i].messages.goodPoints, "title length")

\* C9: a step that returns from an accessor leaves the instances (messages, headings,
\* keywordDensity) and the heading arrays as they were, and the same accessor
\* called again returns what the call returned.
C9_AccessorsReadOnly ==
    [][ret'.op \in Accessors =>
          /\ objs' = objs
          /\ heap' = heap
          /\ ret'.value = Accessor(ret'.op, objs'[ret'.obj])]_vars

\* C9 witness: getSeoScore() was called on an instance holding good points and
\* warnings.
C9_Witness ==
    /\ ret.op = "getSeoScore"
    /\ Len(objs[ret.obj].messages.goodPoints) > 0
    /\ Len(objs[ret.obj].messages.warnings) > 0

\* the position of the first occurrence of keyword in text, 0 when there is none
FirstOccurrence(text, keyword) ==
    IF \E p \in 1..Len(text) : MatchAt(text, keyword, p)
    THEN CHOOSE p \in 1..Len(text) :
             MatchAt(text, keyword, p) /\ \A q \in 1..(p - 1) : ~MatchAt(text, keyword, q)
    ELSE 0

\* C10: getPosition(text, keyword) returns -1 for an empty text or keyword;
\* for a keyword that occurs in the text it returns one more than the number of
\* spaces before its first occurrence, so 1 for "seo" in "seo is great" and 2
\* in "great seo content".
C10_PositionCountsPrefixWords ==
    ret.op = "getPosition" =>
        LET text == ret.args[1]
            keyword == ret.args[2]
            first == FirstOccurrence(text, keyword)
        IN  /\ (text = <<>> \/ keyword = <<>>) => ret.value = -1
            /\ (text # <<>> /\ keyword # <<>> /\ keyword # Null /\ first > 0) =>
                   ret.value = Cardinality({q \in 1..(first - 1) : text[q] = " "}) + 1
            /\ (text = seoIsGreat /\ keyword = seo) => ret.value = 1
            /\ (text = greatSeoContent /\ keyword = seo) => ret.value = 2

\* C10 witness: getPosition("great seo content", "seo") returned 2.
C10_Witness ==
    /\ ret.op = "getPosition"
    /\ ret.args = <<greatSeoContent, seo>>
    /\ ret.value = 2

\* whether the meta description begins with the primary keyword
MetaDescriptionStartsWithKeyword(this) ==
    /\ this.content.keyword # Null
    /\ this.content.keyword # <<>>
    /\ MatchAt(this.content.metaDescription, this.content.keyword, 1)

\* C11: with a meta description, exactly one of the starts-with-keyword good
\* point and the does-not-start-with-keyword minor warning is given, and the
\* good point is given only when the meta description begins with the primary
\* keyword.
C11_StartsWithKeywordOnlyWhenItDoes ==
    \A i \in 1..Len(objs) :
        LET messages == objs[i].messages
        IN  objs[i].content.metaDescription # <<>> =>
                /\ CountAll(messages, "meta description starts with keyword")
                       + CountAll(messages, "meta description does not start with keyword")
                       = 1
                /\ Has(messages.goodPoints, "meta description starts with keyword")
                       <=> MetaDescriptionStartsWithKeyword(objs[i])
                /\ Has(messages.minorWarnings,
                       "meta description does not start with keyword")
                       <=> ~MetaDescriptionStartsWithKeyword(objs[i])

=============================================================================
